---- MODULE Spec2Model ----
(***************************************************************************)
(* Collatz random tester with a persistent SQLite store (3x1.py).          *)
(*                                                                         *)
(* The durable store is the pair of tables `tested` (digests, primary key) *)
(* and `stats` (one row, key 'all_time_stats').  A connection sees the     *)
(* committed tables plus the rows written in its open transaction; a       *)
(* commit makes the transaction durable, a process exit or kill without a  *)
(* commit rolls it back.  One process is one call of                       *)
(* test_random_large_numbers between init_db and conn.close().             *)
(***************************************************************************)
EXTENDS Integers, Sequences, FiniteSets, Bags, TLC

\* ------------------------------------------------------------------ bounds
MaxValue == 2          \* candidates are drawn from sub-ranges of 1..MaxValue
MaxSessions == 2       \* processes started one after the other on one store
MaxBatchLen == 2       \* longest batch handed to mark_tested_batch in SpecBatch
MaxInput == 60         \* collatz_steps is applied to 1..MaxInput in SpecCollatz
MaxTrajectory == 120   \* applications within which a trajectory is followed to 1
LowCutoff == 3         \* a lowered step cutoff, next to the program's own
MaxLegacyLen == 2      \* longest list of a legacy JSON file in SpecMigrate
LowBatchSize == 1      \* a lowered import batch size, next to the program's own

\* ------------------------------------------------------- program constants
CheckpointDivisor == 20     \* checkpoint = num_tests // 20
AttemptMultiplier == 100    \* max_attempts = num_tests * 100
StepCutoff == 100000        \* safety check of collatz_steps
TopN == 10                  \* session top-10 lists
MigrateBatchSize == 10000   \* batch_size of migrate_json_to_sqlite
MigrateCommitEvery == 50000 \* commit when i + batch_size is a multiple of it

\* Targets a session is started with: below CheckpointDivisor (checkpoint
\* interval 0) and twice CheckpointDivisor (checkpoint interval 2).
NumTestsChoices == {1, 2 * CheckpointDivisor}

Values == 1..MaxValue
\* Closed intervals [min_value, max_value] a session is started with: those
\* that start at 1 and the one that holds MaxValue alone.
Ranges == {<<1, hi>> : hi \in Values} \cup {<<MaxValue, MaxValue>>}

Max(a, b) == IF a > b THEN a ELSE b
Min(a, b) == IF a < b THEN a ELSE b
Range(s) == {s[i] : i \in 1..Len(s)}

\* ------------------------------------------------------------ conversions
\* str(n): the canonical decimal digits of a non-negative integer.
RECURSIVE Str(_)
Str(n) == IF n < 10 THEN <<n>> ELSE Str(n \div 10) \o <<n % 10>>

\* hash_number: SHA-256 of the decimal string.  The digest is modelled as the
\* tagged string it was computed from, i.e. SHA-256 is taken collision free.
hash_number(n) == <<"sha256", Str(n)>>

\* hash_number of migrate_to_sqlite.py, a copy of the one above.
migrate_hash_number(n) == <<"sha256", Str(n)>>

\* json.dumps / json.loads of the statistics record (six integers).
JsonDumps(rec) == <<"json", rec>>
JsonLoads(text) == text[2]

\* ------------------------------------------------------------- evaluator
\* if steps > 100000: return steps, max_val
ExceedsOrReaches(steps, cutoff) == steps >= cutoff
Exceeds(steps, cutoff) == steps > cutoff

\* One pass through the body of the while loop of collatz_steps, on the
\* locals n, steps and max_val; returned tells that the function has left
\* the loop (n == 1, or the safety check). cutoff stands for the literal
\* 100000.
LoopBody(st, cutoff) ==
    IF st.n = 1 THEN [st EXCEPT !.returned = TRUE]
    ELSE LET n2 == IF st.n % 2 = 0 THEN st.n \div 2 ELSE 3 * st.n + 1
             s2 == st.steps + 1
             m2 == Max(st.max_val, n2)
         IN  [n |-> n2, steps |-> s2, max_val |-> m2,
              returned |-> Exceeds(s2, cutoff)]

\* At most k passes, stopping at the return; the passes are split in halves
\* so that the evaluation nests only logarithmically deep.
RECURSIVE Passes(_, _, _)
Passes(st, k, cutoff) ==
    IF st.returned \/ k = 0 THEN st
    ELSE IF k = 1 THEN LoopBody(st, cutoff)
    ELSE LET half == Passes(st, k \div 2, cutoff)
         IN  Passes(half, k - (k \div 2), cutoff)

\* Passes until the return, in runs of k, 2k, 4k, ... passes.
RECURSIVE UntilReturn(_, _, _)
UntilReturn(st, k, cutoff) ==
    IF st.returned THEN st
    ELSE UntilReturn(Passes(st, k, cutoff), 2 * k, cutoff)

\* The while loop run to its return.
CollatzLoop(n, steps, max_val, cutoff) ==
    LET st == UntilReturn([n |-> n, steps |-> steps, max_val |-> max_val,
                           returned |-> FALSE], 1, cutoff)
    IN  <<st.steps, st.max_val>>

\* collatz_steps with its safety check at cutoff instead of 100000.
CollatzFromZeroPeak(n, cutoff) ==
    IF n = 1 THEN <<0, 1>> ELSE CollatzLoop(n, 0, 0, cutoff)
CollatzWithCutoff(n, cutoff) ==
    IF n = 1 THEN <<0, 1>> ELSE CollatzLoop(n, 0, n, cutoff)

\* collatz_steps is a pure function: its results on the candidates a session
\* can draw are tabulated once.
StepsOfCandidates == [n \in Values |-> CollatzWithCutoff(n, StepCutoff)]
collatz_steps(n) ==
    IF n \in Values THEN StepsOfCandidates[n]
    ELSE CollatzWithCutoff(n, StepCutoff)

\* ------------------------------------------------------------------ state
VARIABLES
    dbExists,               \* the store file exists
    dbTested,               \* committed rows of table tested (bag of digests)
    dbStats,                \* committed value of stats row, or NoRow
    txTested,               \* rows inserted by the open transaction
    txStats,                \* stats value written by the open transaction
    pc,                     \* position of the process
    err,                    \* exception that ended the session, or "none"
    num_tests, min_value, max_value,
    checkpoint, max_attempts,
    test_count, attempts, duplicates_skipped,
    batch_to_save, session_tested,
    all_time_stats,
    longest_sequence, longest_sequence_num,
    highest_peak, highest_peak_num,
    session_total_steps,
    session_top_10_longest, session_top_10_highest,
    initial_count, final_count,
    result,                 \* the returned summary, or NoResult
    statsErr,               \* save_all_time_stats printed "Error saving stats"
    \* history (not program state)
    sessions,               \* processes started so far
    evalCount,              \* evaluator runs per integer in this session
    committedNums,          \* integers whose insert in the present file was committed
    pendingNums,            \* integers inserted by the open transaction
    crashedAt,              \* position at which the last process was killed
    crashBatch,             \* pending buffer of the process when it was killed
    crashStats,             \* stats row the killed process had found at its start
    statsAtStart,           \* stats row found by load_all_time_stats
    \* the store file
    dbCorrupt,              \* the file is not a database any more
    removedCorrupt,         \* init_db printed "Removing and recreating"
    discarded,              \* the file it removed held digests
    \* collatz_steps alone (SpecCollatz)
    ev_n, ev_cutoff,        \* the argument and the cutoff in force
    ev_result,              \* the returned (steps, max_val), or NoResult
    \* migrate_json_to_sqlite (SpecMigrate)
    legacy_numbers,         \* data.get('tested_numbers', [])
    legacy_stats,           \* data.get('all_time_stats', {}): <<>> or <<record>>
    batch_size,             \* batch_size of the import loop
    migrate_i,              \* i of the import loop
    preStore                \* the committed tables before the migration

store == <<dbExists, dbTested, dbStats>>
tx == <<txTested, txStats>>
params == <<num_tests, min_value, max_value, checkpoint, max_attempts>>
counters == <<test_count, attempts, duplicates_skipped>>
records == <<all_time_stats, longest_sequence, longest_sequence_num,
             highest_peak, highest_peak_num, session_total_steps,
             session_top_10_longest, session_top_10_highest>>
buffers == <<batch_to_save, session_tested>>
summary == <<initial_count, final_count, result, statsErr>>
crashHist == <<crashedAt, crashBatch, crashStats>>
insertHist == <<committedNums, pendingNums>>
file == <<dbCorrupt, removedCorrupt, discarded>>
evaluator == <<ev_n, ev_cutoff, ev_result>>
legacy == <<legacy_numbers, legacy_stats, batch_size, migrate_i, preStore>>
apart == <<evaluator, legacy>>
vars == <<store, tx, pc, err, params, counters, records, buffers, summary,
          sessions, evalCount, insertHist, crashHist, statsAtStart,
          file, apart>>

NoRow == <<>>
NoWrite == <<>>
NoResult == <<>>

ZeroStats == [longest_sequence |-> 0, longest_num |-> 0,
              highest_peak |-> 0, highest_peak_num |-> 0,
              total_steps |-> 0, total_numbers |-> 0]

\* ------------------------------------------------------------------ store
\* What the open connection reads: committed rows plus its own writes.
TestedView == dbTested (+) txTested
StatsView == IF txStats # NoWrite THEN txStats ELSE dbStats

\* SELECT COUNT(*) FROM tested
get_tested_count == BagCardinality(TestedView)

\* SELECT 1 FROM tested WHERE hash = ?
has_been_tested(n) == BagIn(hash_number(n), TestedView)

\* INSERT OR IGNORE INTO tested (hash) VALUES (?): the primary key makes the
\* insert of a digest already in the table a no-op.
InsertAlways(pending, committed, h) == pending (+) SetToBag({h})
InsertOrIgnore(pending, committed, h) ==
    IF BagIn(h, committed (+) pending) THEN pending
    ELSE pending (+) SetToBag({h})

RECURSIVE ExecuteMany(_, _, _)
ExecuteMany(pending, committed, hashes) ==
    IF hashes = <<>> THEN pending
    ELSE ExecuteMany(InsertOrIgnore(pending, committed, Head(hashes)),
                     committed, Tail(hashes))

\* The rows of the open transaction after mark_tested_batch(conn, numbers):
\* nothing is committed by it.
mark_tested_batch(pending, committed, numbers) ==
    ExecuteMany(pending, committed,
                [i \in 1..Len(numbers) |-> hash_number(numbers[i])])

\* The committed rows after mark_tested_batch(conn, numbers) has returned:
\* executemany runs inside the transaction sqlite3 opens for the first
\* INSERT, and mark_tested_batch issues no commit.
MarkAutocommit(pending, committed, numbers) ==
    committed (+) mark_tested_batch(pending, committed, numbers)
MarkCommitted(pending, committed, numbers) == committed

\* conn.commit(): the open transaction becomes durable.
CommitTested == dbTested (+) txTested
CommitStats == IF txStats # NoWrite THEN txStats ELSE dbStats

\* load_all_time_stats: the stats row decoded, or the zero record when the
\* table has no row.
LoadDefaults == ZeroStats
load_all_time_stats ==
    IF StatsView # NoRow THEN JsonLoads(StatsView) ELSE ZeroStats

\* init_db on a valid or missing file: CREATE TABLE IF NOT EXISTS keeps the
\* rows of an existing store.
\* On a file that sqlite3 refuses (DatabaseError from the integrity check
\* connection) init_db removes the file and creates the tables anew.
InitDbTestedDrop == EmptyBag
InitDbTestedKeep == IF dbExists THEN dbTested ELSE EmptyBag
InitDbTested == IF dbExists /\ ~dbCorrupt THEN dbTested ELSE EmptyBag
InitDbStats == IF dbExists /\ ~dbCorrupt THEN dbStats ELSE NoRow

\* if steps > longest_sequence / if max_val > highest_peak
BeatsOrTies(value, best) == value >= best
Beats(value, best) == value > best

\* ------------------------------------------------------- session helpers
\* while test_count < num_tests and attempts < max_attempts
LoopCondLoose == test_count < num_tests /\ attempts <= max_attempts
LoopCond == test_count < num_tests /\ attempts < max_attempts

\* if num in session_tested or has_been_tested(conn, num)
IsDuplicateSessionOnly(num) == num \in session_tested
IsDuplicate(num) == num \in session_tested \/ has_been_tested(num)

\* list.append(item); list.sort(reverse=True); list[:10] on a list that is
\* already sorted in descending order of (first, second).
PairGreater(a, b) == a[1] > b[1] \/ (a[1] = b[1] /\ a[2] > b[2])
TopInsert(list, item) ==
    LET k == Cardinality({i \in 1..Len(list) : PairGreater(list[i], item)})
        sorted == SubSeq(list, 1, k) \o <<item>> \o SubSeq(list, k + 1, Len(list))
    IN  SubSeq(sorted, 1, Min(TopN, Len(sorted)))

\* The variables of the specifications of single functions, where unused.
ApartIdle ==
    /\ ev_n = 0 /\ ev_cutoff = 0 /\ ev_result = NoResult
    /\ legacy_numbers = <<>> /\ legacy_stats = <<>> /\ preStore = <<>>
    /\ batch_size = 0 /\ migrate_i = 0

\* The values of the locals of a process that is not running.
LocalsIdle ==
    /\ num_tests' = 0 /\ min_value' = 0 /\ max_value' = 0
    /\ checkpoint' = 0 /\ max_attempts' = 0
    /\ test_count' = 0 /\ attempts' = 0 /\ duplicates_skipped' = 0
    /\ batch_to_save' = <<>> /\ session_tested' = {}
    /\ all_time_stats' = ZeroStats
    /\ longest_sequence' = 0 /\ longest_sequence_num' = 0
    /\ highest_peak' = 0 /\ highest_peak_num' = 0
    /\ session_total_steps' = 0
    /\ session_top_10_longest' = <<>> /\ session_top_10_highest' = <<>>
    /\ initial_count' = 0 /\ final_count' = 0
    /\ result' = NoResult /\ statsErr' = FALSE
    /\ evalCount' = [n \in Values |-> 0]
    /\ statsAtStart' = NoRow

Init ==
    /\ dbExists = FALSE /\ dbTested = EmptyBag /\ dbStats = NoRow
    /\ txTested = EmptyBag /\ txStats = NoWrite
    /\ pc = "idle" /\ err = "none"
    /\ num_tests = 0 /\ min_value = 0 /\ max_value = 0
    /\ checkpoint = 0 /\ max_attempts = 0
    /\ test_count = 0 /\ attempts = 0 /\ duplicates_skipped = 0
    /\ batch_to_save = <<>> /\ session_tested = {}
    /\ all_time_stats = ZeroStats
    /\ longest_sequence = 0 /\ longest_sequence_num = 0
    /\ highest_peak = 0 /\ highest_peak_num = 0
    /\ session_total_steps = 0
    /\ session_top_10_longest = <<>> /\ session_top_10_highest = <<>>
    /\ initial_count = 0 /\ final_count = 0
    /\ result = NoResult /\ statsErr = FALSE
    /\ sessions = 0
    /\ evalCount = [n \in Values |-> 0]
    /\ committedNums = {} /\ pendingNums = {}
    /\ crashedAt = "none" /\ crashBatch = <<>> /\ crashStats = NoRow
    /\ statsAtStart = NoRow
    /\ dbCorrupt = FALSE /\ removedCorrupt = FALSE /\ discarded = FALSE
    /\ ApartIdle

\* ---------------------------------------------------------------- actions
\* init_db(): open (and create if missing) the store.
InitDb ==
    /\ pc = "idle" /\ sessions < MaxSessions
    /\ removedCorrupt' = (dbExists /\ dbCorrupt)
    /\ discarded' = (dbExists /\ dbCorrupt /\ dbTested # EmptyBag)
    /\ dbCorrupt' = FALSE
    /\ dbExists' = TRUE
    /\ dbTested' = InitDbTested
    /\ dbStats' = InitDbStats
    /\ pc' = "opened"
    /\ sessions' = sessions + 1
    /\ crashedAt' = "none" /\ crashBatch' = <<>> /\ crashStats' = NoRow
    /\ committedNums' = IF dbExists /\ dbCorrupt THEN {} ELSE committedNums
    /\ UNCHANGED <<tx, err, params, counters, records, buffers, summary,
                   evalCount, pendingNums, statsAtStart, apart>>

\* test_random_large_numbers, lines 160-216: load the counts and the record,
\* initialise the session.
StartSession(nt, lo, hi) ==
    /\ pc = "opened"
    /\ num_tests' = nt /\ min_value' = lo /\ max_value' = hi
    /\ initial_count' = get_tested_count
    /\ all_time_stats' = load_all_time_stats
    /\ longest_sequence' = load_all_time_stats.longest_sequence
    /\ longest_sequence_num' = load_all_time_stats.longest_num
    /\ highest_peak' = load_all_time_stats.highest_peak
    /\ highest_peak_num' = load_all_time_stats.highest_peak_num
    /\ session_total_steps' = 0
    /\ session_top_10_longest' = <<>> /\ session_top_10_highest' = <<>>
    /\ checkpoint' = nt \div CheckpointDivisor
    /\ max_attempts' = nt * AttemptMultiplier
    /\ test_count' = 0 /\ attempts' = 0 /\ duplicates_skipped' = 0
    /\ batch_to_save' = <<>> /\ session_tested' = {}
    /\ statsAtStart' = StatsView
    /\ pc' = "loop"
    /\ UNCHANGED <<store, tx, err, final_count, result, statsErr,
                   sessions, evalCount, insertHist, crashHist>>
    /\ UNCHANGED <<file, apart>>

\* One iteration of the loop on a candidate that was already tested.
DuplicateSkipBuffers(num) ==
    /\ pc = "loop" /\ LoopCond
    /\ num \in min_value..max_value
    /\ IsDuplicate(num)
    /\ attempts' = attempts + 1
    /\ duplicates_skipped' = duplicates_skipped + 1
    /\ batch_to_save' = Append(batch_to_save, num)
    /\ UNCHANGED <<store, tx, pc, err, params, test_count, records,
                   session_tested, summary, sessions, evalCount, insertHist,
                   crashHist, statsAtStart>>
    /\ UNCHANGED <<file, apart>>

DuplicateSkip(num) ==
    /\ pc = "loop" /\ LoopCond
    /\ num \in min_value..max_value
    /\ IsDuplicate(num)
    /\ attempts' = attempts + 1
    /\ duplicates_skipped' = duplicates_skipped + 1
    /\ UNCHANGED <<store, tx, pc, err, params, test_count, records, buffers,
                   summary, sessions, evalCount, insertHist, crashHist, statsAtStart>>
    /\ UNCHANGED <<file, apart>>

\* One iteration of the loop on a new candidate, up to the checkpoint test
\* of line 267.
EvaluateAndRecord(num) ==
    /\ pc = "loop" /\ LoopCond
    /\ num \in min_value..max_value
    /\ ~IsDuplicate(num)
    /\ LET r == collatz_steps(num)
           steps == r[1]
           max_val == r[2]
           tc == test_count + 1
           batch == Append(batch_to_save, num)
       IN  /\ attempts' = attempts + 1
           /\ session_tested' = session_tested \cup {num}
           /\ batch_to_save' = batch
           /\ test_count' = tc
           /\ evalCount' = [evalCount EXCEPT ![num] = @ + 1]
           /\ session_total_steps' = session_total_steps + steps
           /\ all_time_stats' =
                 [all_time_stats EXCEPT
                    !.total_steps = @ + steps,
                    !.total_numbers = @ + 1,
                    !.longest_sequence =
                        IF Beats(steps, longest_sequence) THEN steps ELSE @,
                    !.longest_num =
                        IF Beats(steps, longest_sequence) THEN num ELSE @,
                    !.highest_peak =
                        IF Beats(max_val, highest_peak) THEN max_val ELSE @,
                    !.highest_peak_num =
                        IF Beats(max_val, highest_peak) THEN num ELSE @]
           /\ longest_sequence' =
                 IF Beats(steps, longest_sequence) THEN steps ELSE longest_sequence
           /\ longest_sequence_num' =
                 IF Beats(steps, longest_sequence) THEN num ELSE longest_sequence_num
           /\ highest_peak' =
                 IF Beats(max_val, highest_peak) THEN max_val ELSE highest_peak
           /\ highest_peak_num' =
                 IF Beats(max_val, highest_peak) THEN num ELSE highest_peak_num
           /\ session_top_10_longest' =
                 TopInsert(session_top_10_longest, <<steps, num>>)
           /\ session_top_10_highest' =
                 TopInsert(session_top_10_highest, <<max_val, num>>)
           /\ IF checkpoint = 0
              THEN pc' = "raised" /\ err' = "ZeroDivisionError"
              ELSE /\ err' = err
                   /\ pc' = IF tc % checkpoint = 0 /\ batch # <<>>
                            THEN "ckpt_mark" ELSE "loop"
    /\ UNCHANGED <<store, tx, params, duplicates_skipped, summary,
                   sessions, insertHist, crashHist, statsAtStart>>
    /\ UNCHANGED <<file, apart>>

\* Lines 275-276: mark_tested_batch(conn, batch_to_save) of a checkpoint.
CheckpointMark ==
    /\ pc = "ckpt_mark"
    /\ txTested' = mark_tested_batch(txTested, dbTested, batch_to_save)
    /\ dbTested' = MarkCommitted(txTested, dbTested, batch_to_save)
    /\ pendingNums' = pendingNums \cup Range(batch_to_save)
    /\ pc' = "ckpt_commit"
    /\ UNCHANGED <<dbExists, dbStats, txStats, err, params, counters, records, buffers,
                   summary, sessions, evalCount, committedNums, crashHist, statsAtStart>>
    /\ UNCHANGED <<file, apart>>

\* Lines 277-278: conn.commit(); batch_to_save = [].
CheckpointCommit ==
    /\ pc = "ckpt_commit"
    /\ dbTested' = CommitTested
    /\ dbStats' = CommitStats
    /\ txTested' = EmptyBag /\ txStats' = NoWrite
    /\ committedNums' = committedNums \cup pendingNums
    /\ pendingNums' = {}
    /\ batch_to_save' = <<>>
    /\ pc' = "loop"
    /\ UNCHANGED <<dbExists, err, params, counters, records, session_tested,
                   summary, sessions, evalCount, crashHist, statsAtStart>>
    /\ UNCHANGED <<file, apart>>

\* Line 218: the loop condition is false.
LoopExit ==
    /\ pc = "loop" /\ ~LoopCond
    /\ pc' = "final_mark"
    /\ UNCHANGED <<store, tx, err, params, counters, records, buffers,
                   summary, sessions, evalCount, insertHist, crashHist, statsAtStart>>
    /\ UNCHANGED <<file, apart>>

\* Lines 284-285: if batch_to_save: mark_tested_batch(conn, batch_to_save).
FinalMark ==
    /\ pc = "final_mark"
    /\ IF batch_to_save # <<>>
       THEN /\ txTested' = mark_tested_batch(txTested, dbTested, batch_to_save)
            /\ dbTested' = MarkCommitted(txTested, dbTested, batch_to_save)
            /\ pendingNums' = pendingNums \cup Range(batch_to_save)
       ELSE UNCHANGED <<txTested, dbTested, pendingNums>>
    /\ pc' = "final_save"
    /\ UNCHANGED <<dbExists, dbStats, txStats, err, params, counters, records, buffers,
                   summary, sessions, evalCount, committedNums, crashHist, statsAtStart>>
    /\ UNCHANGED <<file, apart>>

\* Line 286, save_all_time_stats: INSERT OR REPLACE of the record and commit.
FinalSave ==
    /\ pc = "final_save"
    /\ dbTested' = CommitTested
    /\ dbStats' = JsonDumps(all_time_stats)
    /\ txTested' = EmptyBag /\ txStats' = NoWrite
    /\ committedNums' = committedNums \cup pendingNums
    /\ pendingNums' = {}
    /\ pc' = "final_commit"
    /\ UNCHANGED <<dbExists, err, params, counters, records, buffers,
                   summary, sessions, evalCount, crashHist, statsAtStart>>
    /\ UNCHANGED <<file, apart>>

\* save_all_time_stats when the INSERT OR REPLACE raises: the exception is
\* caught and printed (lines 89-90), nothing is written or committed.
FinalSaveExecuteFails ==
    /\ pc = "final_save"
    /\ statsErr' = TRUE
    /\ pc' = "final_commit"
    /\ UNCHANGED <<store, tx, err, params, counters, records, buffers,
                   initial_count, final_count, result,
                   sessions, evalCount, insertHist, crashHist, statsAtStart>>
    /\ UNCHANGED <<file, apart>>

\* save_all_time_stats when its conn.commit() raises: the record stays in
\* the open transaction, the exception is caught and printed.
FinalSaveCommitFails ==
    /\ pc = "final_save"
    /\ txStats' = JsonDumps(all_time_stats)
    /\ statsErr' = TRUE
    /\ pc' = "final_commit"
    /\ UNCHANGED <<store, txTested, err, params, counters, records, buffers,
                   initial_count, final_count, result,
                   sessions, evalCount, insertHist, crashHist, statsAtStart>>
    /\ UNCHANGED <<file, apart>>

\* Line 287: conn.commit().
FinalCommit ==
    /\ pc = "final_commit"
    /\ dbTested' = CommitTested
    /\ dbStats' = CommitStats
    /\ txTested' = EmptyBag /\ txStats' = NoWrite
    /\ committedNums' = committedNums \cup pendingNums
    /\ pendingNums' = {}
    /\ pc' = "summary"
    /\ UNCHANGED <<dbExists, err, params, counters, records, buffers,
                   summary, sessions, evalCount, crashHist, statsAtStart>>
    /\ UNCHANGED <<file, apart>>

\* mark_tested_batch or conn.commit() of a flush raises sqlite3.Error: no
\* handler in test_random_large_numbers, the exception leaves the function.
FlushRaises ==
    /\ \/ pc \in {"ckpt_mark", "ckpt_commit", "final_commit"}
       \/ pc = "final_mark" /\ batch_to_save # <<>>
    /\ pc' = "raised" /\ err' = "DatabaseError"
    /\ UNCHANGED <<store, tx, params, counters, records, buffers, summary,
                   sessions, evalCount, insertHist, crashHist, statsAtStart>>
    /\ UNCHANGED <<file, apart>>

\* Lines 289-352: final count, the printed report and the returned summary.
\* The report divides by test_count (line 302), by
\* all_time_stats['total_numbers'] (line 309) and by highest_peak_num
\* (line 317).
Summary ==
    /\ pc = "summary"
    /\ final_count' = get_tested_count
    /\ IF test_count = 0 \/ all_time_stats.total_numbers = 0
          \/ highest_peak_num = 0
       THEN pc' = "raised" /\ err' = "ZeroDivisionError" /\ result' = result
       ELSE /\ pc' = "done" /\ err' = err
            /\ result' = [session_tested |-> test_count,
                          total_unique |-> get_tested_count,
                          duplicates_skipped |-> duplicates_skipped,
                          all_time_stats |-> all_time_stats]
    /\ UNCHANGED <<store, tx, params, counters, records, buffers,
                   initial_count, statsErr,
                   sessions, evalCount, insertHist, crashHist, statsAtStart>>
    /\ UNCHANGED <<file, apart>>

\* Line 382 (or 345): conn.close() after a session that returned.
CloseConn ==
    /\ pc = "done"
    /\ txTested' = EmptyBag /\ txStats' = NoWrite
    /\ pendingNums' = {}
    /\ pc' = "idle" /\ err' = "none"
    /\ LocalsIdle
    /\ UNCHANGED <<store, sessions, committedNums, crashHist>>
    /\ UNCHANGED <<file, apart>>

\* The exception ends the process: the open transaction is rolled back.
Abort ==
    /\ pc = "raised"
    /\ txTested' = EmptyBag /\ txStats' = NoWrite
    /\ pendingNums' = {}
    /\ pc' = "idle" /\ err' = "none"
    /\ LocalsIdle
    /\ UNCHANGED <<store, sessions, committedNums, crashHist>>
    /\ UNCHANGED <<file, apart>>

\* The process is killed: the open transaction is rolled back, the locals
\* are lost, the committed tables stay.
Crash ==
    /\ pc \in {"opened", "loop", "ckpt_mark", "ckpt_commit", "final_mark",
               "final_save", "final_commit", "summary"}
    /\ crashedAt' = pc /\ crashBatch' = batch_to_save
    /\ crashStats' = statsAtStart
    /\ txTested' = EmptyBag /\ txStats' = NoWrite
    /\ pendingNums' = {}
    /\ pc' = "idle" /\ err' = "none"
    /\ LocalsIdle
    /\ UNCHANGED <<store, sessions, committedNums>>
    /\ UNCHANGED <<file, apart>>

Next ==
    \/ InitDb
    \/ \E nt \in NumTestsChoices : \E r \in Ranges : StartSession(nt, r[1], r[2])
    \/ \E num \in Values : DuplicateSkip(num)
    \/ \E num \in Values : EvaluateAndRecord(num)
    \/ CheckpointMark
    \/ CheckpointCommit
    \/ LoopExit
    \/ FinalMark
    \/ FinalSave
    \/ FinalSaveExecuteFails
    \/ FinalSaveCommitFails
    \/ FinalCommit
    \/ FlushRaises
    \/ Summary
    \/ CloseConn
    \/ Abort
    \/ Crash

Spec == Init /\ [][Next]_vars

\* The store file of a stopped process is damaged so that sqlite3 refuses it
\* (the case of lines 37-40 of init_db), where a later process can open it.
CorruptFile ==
    /\ pc = "idle" /\ dbExists /\ ~dbCorrupt
    /\ sessions < MaxSessions
    /\ dbCorrupt' = TRUE
    /\ UNCHANGED <<store, tx, pc, err, params, counters, records, buffers,
                   summary, sessions, evalCount, insertHist, crashHist,
                   statsAtStart, removedCorrupt, discarded, apart>>

NextCorrupt == Next \/ CorruptFile

SpecCorrupt == Init /\ [][NextCorrupt]_vars

\* ------------------------------------------------ mark_tested_batch alone
\* A store holding any set of digests and any batch of at most MaxBatchLen
\* integers (repeats allowed), handed to mark_tested_batch twice and then
\* committed.
BatchValues == 0..MaxValue
Batches == UNION {[1..k -> BatchValues] : k \in 0..MaxBatchLen}

InitBatch ==
    /\ dbExists = TRUE
    /\ dbTested \in {SetToBag({hash_number(n) : n \in S}) : S \in SUBSET BatchValues}
    /\ dbStats = NoRow
    /\ txTested = EmptyBag /\ txStats = NoWrite
    /\ pc = "batch0" /\ err = "none"
    /\ num_tests = 0 /\ min_value = 0 /\ max_value = 0
    /\ checkpoint = 0 /\ max_attempts = 0
    /\ test_count = 0 /\ attempts = 0 /\ duplicates_skipped = 0
    /\ batch_to_save \in Batches
    /\ session_tested = {}
    /\ all_time_stats = ZeroStats
    /\ longest_sequence = 0 /\ longest_sequence_num = 0
    /\ highest_peak = 0 /\ highest_peak_num = 0
    /\ session_total_steps = 0
    /\ session_top_10_longest = <<>> /\ session_top_10_highest = <<>>
    /\ initial_count = BagCardinality(dbTested) /\ final_count = 0
    /\ result = NoResult /\ statsErr = FALSE
    /\ sessions = 0
    /\ evalCount = [n \in Values |-> 0]
    /\ committedNums = {} /\ pendingNums = {}
    /\ crashedAt = "none" /\ crashBatch = <<>> /\ crashStats = NoRow
    /\ statsAtStart = NoRow
    /\ dbCorrupt = FALSE /\ removedCorrupt = FALSE /\ discarded = FALSE
    /\ ApartIdle

\* mark_tested_batch(conn, batch_to_save), then get_tested_count(conn);
\* initial_count keeps the count read before this call.
BatchMark ==
    /\ pc \in {"batch0", "batch1"}
    /\ txTested' = mark_tested_batch(txTested, dbTested, batch_to_save)
    /\ dbTested' = MarkCommitted(txTested, dbTested, batch_to_save)
    /\ initial_count' = get_tested_count
    /\ final_count' = BagCardinality(dbTested' (+) txTested')
    /\ pc' = IF pc = "batch0" THEN "batch1" ELSE "batch2"
    /\ UNCHANGED <<dbExists, dbStats, txStats, err, params, counters, records,
                   buffers, result, statsErr, sessions, evalCount, insertHist,
                   crashHist, statsAtStart>>
    /\ UNCHANGED <<file, apart>>

BatchCommit ==
    /\ pc = "batch2"
    /\ dbTested' = CommitTested
    /\ dbStats' = CommitStats
    /\ txTested' = EmptyBag /\ txStats' = NoWrite
    /\ pc' = "batchdone"
    /\ UNCHANGED <<dbExists, err, params, counters, records, buffers, summary,
                   sessions, evalCount, insertHist, crashHist, statsAtStart>>
    /\ UNCHANGED <<file, apart>>

NextBatch == BatchMark \/ BatchCommit

SpecBatch == InitBatch /\ [][NextBatch]_vars

\* ---------------------------------------------------- collatz_steps alone
\* The session variables of a specification that runs no session.
SessionVarsIdle ==
    /\ txTested = EmptyBag /\ txStats = NoWrite
    /\ err = "none"
    /\ num_tests = 0 /\ min_value = 0 /\ max_value = 0
    /\ checkpoint = 0 /\ max_attempts = 0
    /\ test_count = 0 /\ attempts = 0 /\ duplicates_skipped = 0
    /\ batch_to_save = <<>> /\ session_tested = {}
    /\ all_time_stats = ZeroStats
    /\ longest_sequence = 0 /\ longest_sequence_num = 0
    /\ highest_peak = 0 /\ highest_peak_num = 0
    /\ session_total_steps = 0
    /\ session_top_10_longest = <<>> /\ session_top_10_highest = <<>>
    /\ initial_count = 0 /\ final_count = 0
    /\ result = NoResult /\ statsErr = FALSE
    /\ sessions = 0
    /\ evalCount = [n \in Values |-> 0]
    /\ committedNums = {} /\ pendingNums = {}
    /\ crashedAt = "none" /\ crashBatch = <<>> /\ crashStats = NoRow
    /\ statsAtStart = NoRow
    /\ dbCorrupt = FALSE /\ removedCorrupt = FALSE /\ discarded = FALSE

\* collatz_steps called on any integer of 1..MaxInput, with its safety check
\* at 100000 as written or lowered to LowCutoff.
Inputs == 1..MaxInput
Cutoffs == {LowCutoff, StepCutoff}

InitCollatz ==
    /\ dbExists = FALSE /\ dbTested = EmptyBag /\ dbStats = NoRow
    /\ SessionVarsIdle
    /\ pc = "eval0"
    /\ ev_n \in Inputs /\ ev_cutoff \in Cutoffs /\ ev_result = NoResult
    /\ legacy_numbers = <<>> /\ legacy_stats = <<>> /\ preStore = <<>>
    /\ batch_size = 0 /\ migrate_i = 0

\* steps, max_val = collatz_steps(num)
Evaluate ==
    /\ pc = "eval0"
    /\ ev_result' = CollatzWithCutoff(ev_n, ev_cutoff)
    /\ pc' = "eval1"
    /\ UNCHANGED <<store, tx, err, params, counters, records, buffers, summary,
                   sessions, evalCount, insertHist, crashHist, statsAtStart,
                   file, ev_n, ev_cutoff, legacy>>

NextCollatz == Evaluate

SpecCollatz == InitCollatz /\ [][NextCollatz]_vars

\* ------------------------------------------------- migrate_json_to_sqlite
\* A legacy JSON file holding any list of at most MaxLegacyLen integers
\* (repeats allowed) and, or not, a statistics record, imported into a store
\* that is missing or holds any digests and, or not, a stats row.  The loop
\* runs with the program's batch size or with one lowered to LowBatchSize.
LegacyValues == 0..MaxValue
LegacyLists == UNION {[1..k -> LegacyValues] : k \in 0..MaxLegacyLen}
BatchSizes == {LowBatchSize, MigrateBatchSize}
ImportedStats == [longest_sequence |-> 111, longest_num |-> 27,
                  highest_peak |-> 9232, highest_peak_num |-> 27,
                  total_steps |-> 119, total_numbers |-> 2]
StatsBefore == [longest_sequence |-> 8, longest_num |-> 6,
                highest_peak |-> 16, highest_peak_num |-> 6,
                total_steps |-> 8, total_numbers |-> 1]

InitMigrate ==
    /\ dbExists \in BOOLEAN
    /\ dbTested \in {SetToBag({hash_number(n) : n \in S}) : S \in SUBSET LegacyValues}
    /\ dbStats \in {NoRow, JsonDumps(StatsBefore)}
    /\ ~dbExists => (dbTested = EmptyBag /\ dbStats = NoRow)
    /\ SessionVarsIdle
    /\ pc = "mig0"
    /\ ev_n = 0 /\ ev_cutoff = 0 /\ ev_result = NoResult
    /\ legacy_numbers \in LegacyLists
    /\ legacy_stats \in {<<>>, <<ImportedStats>>}
    /\ batch_size \in BatchSizes
    /\ migrate_i = 0
    /\ preStore = <<dbTested, dbStats>>

\* conn.executemany('INSERT OR IGNORE INTO tested (hash) VALUES (?)', hashes)
MigrateInsertAlways(pending, committed, h) == pending (+) SetToBag({h})
MigrateInsertOrIgnore(pending, committed, h) ==
    IF BagIn(h, committed (+) pending) THEN pending
    ELSE pending (+) SetToBag({h})

RECURSIVE MigrateExecuteMany(_, _, _)
MigrateExecuteMany(pending, committed, hashes) ==
    IF hashes = <<>> THEN pending
    ELSE MigrateExecuteMany(MigrateInsertOrIgnore(pending, committed, Head(hashes)),
                            committed, Tail(hashes))

\* sqlite3.connect, CREATE TABLE IF NOT EXISTS (twice), commit; the loop
\* variables are set.
MigrateOpen ==
    /\ pc = "mig0"
    /\ dbExists' = TRUE
    /\ migrate_i' = 0
    /\ pc' = "mig_loop"
    /\ UNCHANGED <<dbTested, dbStats, tx, err, params, counters, records,
                   buffers, summary, sessions, evalCount, insertHist,
                   crashHist, statsAtStart, file, evaluator, legacy_numbers,
                   legacy_stats, batch_size, preStore>>

\* One pass of `for i in range(0, len(numbers), batch_size)`: the batch is
\* hashed and inserted, and committed when i + batch_size is a multiple of
\* 50000.
MigrateBatch ==
    /\ pc = "mig_loop" /\ migrate_i < Len(legacy_numbers)
    /\ LET batch == SubSeq(legacy_numbers, migrate_i + 1,
                           Min(migrate_i + batch_size, Len(legacy_numbers)))
           hashes == [k \in 1..Len(batch) |-> migrate_hash_number(batch[k])]
           inserted == MigrateExecuteMany(txTested, dbTested, hashes)
       IN  IF (migrate_i + batch_size) % MigrateCommitEvery = 0
           THEN /\ dbTested' = dbTested (+) inserted
                /\ txTested' = EmptyBag
           ELSE /\ dbTested' = dbTested
                /\ txTested' = inserted
    /\ migrate_i' = migrate_i + batch_size
    /\ UNCHANGED <<dbExists, dbStats, txStats, pc, err, params, counters,
                   records, buffers, summary, sessions, evalCount, insertHist,
                   crashHist, statsAtStart, file, evaluator, legacy_numbers,
                   legacy_stats, batch_size, preStore>>

\* conn.commit() after the loop.
MigrateCommit ==
    /\ pc = "mig_loop" /\ migrate_i >= Len(legacy_numbers)
    /\ dbTested' = CommitTested
    /\ txTested' = EmptyBag
    /\ pc' = "mig_stats"
    /\ UNCHANGED <<dbExists, dbStats, txStats, err, params, counters, records,
                   buffers, summary, sessions, evalCount, insertHist,
                   crashHist, statsAtStart, file, apart>>

\* if all_time_stats: INSERT OR REPLACE INTO stats ...; conn.commit()
MigrateStats ==
    /\ pc = "mig_stats"
    /\ dbStats' = IF legacy_stats # <<>> THEN JsonDumps(legacy_stats[1])
                  ELSE dbStats
    /\ pc' = "mig_done"
    /\ UNCHANGED <<dbExists, dbTested, tx, err, params, counters, records,
                   buffers, summary, sessions, evalCount, insertHist,
                   crashHist, statsAtStart, file, apart>>

NextMigrate == MigrateOpen \/ MigrateBatch \/ MigrateCommit \/ MigrateStats

SpecMigrate == InitMigrate /\ [][NextMigrate]_vars

\* ----------------------------------------------------------------- claims
StoredStats == IF dbStats # NoRow THEN JsonLoads(dbStats) ELSE ZeroStats
Committed(n) == BagIn(hash_number(n), dbTested)
FlushPcs == {"ckpt_mark", "ckpt_commit", "final_mark", "final_save", "final_commit"}

\* C1: every checkpoint commits the in-memory statistics record together
\* with the pending buffer, so right after a checkpoint the stored record
\* accounts for every evaluation of the session so far.
C1_CheckpointCommitsStats ==
    [][(pc = "ckpt_commit" /\ pc' = "loop")
        => dbStats' = JsonDumps(all_time_stats')]_vars

\* C2: in every durable state the stored total_numbers equals the number of
\* digests in table tested.
C2_CountsMatchDigests ==
    StoredStats.total_numbers = BagCardinality(dbTested)

\* C3 (as stated): a process killed right after mark_tested_batch returned
\* and before the statistics commit leaves, on reopening, every integer of
\* the buffer in the membership store and the statistics at their
\* pre-commit values.
C3_KilledAfterInsertKeepsDigests ==
    (pc = "idle" /\ crashedAt \in {"ckpt_commit", "final_save"})
        => /\ \A n \in Range(crashBatch) : has_been_tested(n)
           /\ dbStats = crashStats

\* C3 (amended): a process killed right after mark_tested_batch returned and
\* before any commit leaves, on reopening, the store in its pre-flush state:
\* no integer of the buffer is in the membership store, the statistics hold
\* their pre-commit values.
C3_KilledAfterInsertRollsBack ==
    (pc = "idle" /\ crashedAt \in {"ckpt_commit", "final_save"})
        => /\ \A n \in Range(crashBatch) : ~has_been_tested(n)
           /\ dbStats = crashStats

C3_Witness ==
    /\ pc = "idle" /\ crashedAt = "ckpt_commit"
    /\ Len(crashBatch) = 2
    /\ BagCardinality(dbTested) = 0

\* C4: a flush that fails (mark_tested_batch or the commit raises) leaves the
\* session running with its pending buffer, to be flushed again later.
C4_FailedFlushKeepsBuffer ==
    [][(pc \in FlushPcs /\ err' = "DatabaseError")
        => (pc' \in {"loop"} \cup FlushPcs /\ batch_to_save' = batch_to_save)]_vars

\* C5: when the INSERT OR REPLACE of save_all_time_stats raises in the final
\* flush, the digests inserted by that flush are not committed either.
C5_FailedStatsWriteCommitsNothing ==
    [][(pc = "final_commit" /\ statsErr /\ txStats = NoWrite)
        => (dbTested' = dbTested /\ dbStats' = dbStats)]_vars

\* C6: a session that evaluates at least one new integer never raises: it
\* reaches FINALIZE and DONE for every positive target.
C6_SessionNeverRaises ==
    test_count >= 1 => err # "ZeroDivisionError"

C8_NoReevaluation ==
    /\ [](\A n \in Values : evalCount[n] <= 1)
    /\ [][\A n \in Values : evalCount'[n] > evalCount[n]
            => (~Committed(n) /\ n \notin committedNums)]_vars

C8_Witness ==
    /\ sessions = 2 /\ pc = "loop"
    /\ committedNums = {1}
    /\ evalCount[2] = 1
    /\ duplicates_skipped >= 2

\* C9: no false negatives and, digests being distinct, no false positives:
\* has_been_tested is true of every integer whose insert was committed, in
\* every later state and through every reopening of the store, and false of
\* every integer not inserted.
C9_MembershipExact ==
    /\ \A x \in committedNums : has_been_tested(x)
    /\ \A x \in 0..(MaxValue + 1) :
          has_been_tested(x) => x \in committedNums \cup pendingNums

C9_Witness ==
    /\ pc = "opened" /\ sessions = 2
    /\ committedNums = {1}
    /\ has_been_tested(1) /\ ~has_been_tested(2)

\* C10: mark_tested_batch is an insert-if-absent: after a batch the count is
\* the number of distinct digests of the previous content and the batch, no
\* digest has two rows, and a second application of the same batch leaves
\* the count as it was.
C10_BatchIdempotent ==
    /\ pc \in {"batch1", "batch2"}
         => /\ get_tested_count =
                 Cardinality(BagToSet(dbTested)
                             \cup {hash_number(n) : n \in Range(batch_to_save)})
            /\ final_count = get_tested_count
    /\ pc = "batch2" => final_count = initial_count
    /\ \A h \in BagToSet(TestedView) : CopiesIn(h, TestedView) = 1

C10_Witness ==
    /\ pc = "batch2"
    /\ Len(batch_to_save) = 2 /\ batch_to_save[1] = batch_to_save[2]
    /\ ~Committed(batch_to_save[1])
    /\ BagCardinality(dbTested) >= 1
    /\ get_tested_count = BagCardinality(dbTested) + 1

\* The record stored when the session started, and the running session's
\* results.
PrevStats == IF statsAtStart # NoRow THEN JsonLoads(statsAtStart) ELSE ZeroStats
SetMax(S) == CHOOSE m \in S : \A x \in S : x <= m
SessionSteps == {collatz_steps(n)[1] : n \in session_tested}
SessionPeaks == {collatz_steps(n)[2] : n \in session_tested}
RunningPcs == {"loop", "ckpt_mark", "ckpt_commit", "final_mark", "final_save",
               "final_commit", "summary", "done", "raised"}

Successor(n) == IF n % 2 = 0 THEN n \div 2 ELSE 3 * n + 1
RECURSIVE Iterate(_, _)
Iterate(n, k) ==
    IF n = 0 \/ k = 0 THEN n
    ELSE IF k = 1 THEN Successor(n)
    ELSE Iterate(Iterate(n, k \div 2), k - (k \div 2))
HitsOne(n, bound) == {k \in 0..bound : Iterate(n, k) = 1}
ReachesWithin(n, cutoff) == HitsOne(n, Min(cutoff, MaxTrajectory)) # {}
TrajSteps(n) ==
    LET hits == HitsOne(n, MaxTrajectory)
    IN  CHOOSE k \in hits : \A j \in hits : k <= j
PeakAfter(n, k) == SetMax({Iterate(n, j) : j \in 0..k})
TrajMax(n) == PeakAfter(n, TrajSteps(n))

\* C13: for a positive integer whose trajectory reaches 1 within the cutoff,
\* collatz_steps returns the exact number of applications needed to first
\* reach 1 and the maximum of the trajectory including the input (so the
\* peak is at least the input); collatz_steps(1) = (0, 1),
\* collatz_steps(6) = (8, 16) and collatz_steps(27) = (111, 9232).
C13_EvaluatorExact ==
    (pc = "eval1" /\ ReachesWithin(ev_n, ev_cutoff))
        => /\ ev_result = <<TrajSteps(ev_n), TrajMax(ev_n)>>
           /\ ev_result[2] >= ev_n
           /\ err = "none"
           /\ ev_n = 1 => ev_result = <<0, 1>>
           /\ (ev_n = 6 /\ ev_cutoff = StepCutoff) => ev_result = <<8, 16>>
           /\ (ev_n = 27 /\ ev_cutoff = StepCutoff) => ev_result = <<111, 9232>>

C13_Witness ==
    /\ pc = "eval1" /\ ev_n = 27 /\ ev_cutoff = StepCutoff
    /\ ReachesWithin(ev_n, ev_cutoff)
    /\ ev_result = <<111, 9232>>

\* C14 (as claimed): for an input whose trajectory does not reach 1 within
\* the cutoff, collatz_steps returns without raising, with steps equal to
\* the cutoff and a peak at least the input.
C14_GuardReturnsCutoff ==
    (pc = "eval1" /\ ~ReachesWithin(ev_n, ev_cutoff))
        => /\ err = "none"
           /\ ev_result[1] = ev_cutoff
           /\ ev_result[2] >= ev_n

\* C14 (amended): for an input whose trajectory does not reach 1 within the
\* cutoff, collatz_steps returns without raising, with steps equal to the
\* cutoff plus one (the first count that exceeds the cutoff) and the peak
\* of the applications made, which is at least the input.
C14_GuardReturnsCutoffPlusOne ==
    (pc = "eval1" /\ ~ReachesWithin(ev_n, ev_cutoff))
        => /\ err = "none"
           /\ ev_result[1] = ev_cutoff + 1
           /\ ev_result[2] = PeakAfter(ev_n, ev_cutoff + 1)
           /\ ev_result[2] >= ev_n

C14_Witness ==
    /\ pc = "eval1" /\ ev_n = 27 /\ ev_cutoff = LowCutoff
    /\ ~ReachesWithin(ev_n, ev_cutoff)
    /\ ev_result[1] = LowCutoff + 1
    /\ ev_result[2] > ev_n

\* C15 (as claimed): when the store file exists but is found corrupt at open
\* time, init_db leaves the file and its contents untouched and propagates
\* a corruption error to its caller.
C15_CorruptStoreLeftUntouched ==
    [][(pc = "idle" /\ dbExists /\ dbCorrupt /\ sessions' # sessions)
        => /\ dbExists' /\ dbCorrupt'
           /\ dbTested' = dbTested /\ dbStats' = dbStats
           /\ err' # "none"]_vars

\* C15 (amended): when the store file exists but is found corrupt at open
\* time, init_db removes it and creates a new, empty store in its place; no
\* error reaches the caller, who goes on with a connection to the empty
\* store.
C15_CorruptStoreReplaced ==
    [][(pc = "idle" /\ dbExists /\ dbCorrupt /\ sessions' # sessions)
        => /\ dbExists' /\ ~dbCorrupt' /\ removedCorrupt'
           /\ dbTested' = EmptyBag /\ dbStats' = NoRow
           /\ err' = "none" /\ pc' = "opened"]_vars

C15_Witness ==
    /\ pc = "opened" /\ removedCorrupt /\ discarded
    /\ committedNums = {}
    /\ dbExists /\ ~dbCorrupt
    /\ dbTested = EmptyBag /\ dbStats = NoRow
    /\ err = "none"

\* What the session driver's commit path makes of a store: every integer of
\* the list through mark_tested_batch, the commit, and the record written
\* as save_all_time_stats writes it.
SessionPathTested(before, numbers) ==
    before (+) mark_tested_batch(EmptyBag, before, numbers)
SessionPathStats(before, rec) == JsonDumps(rec)

\* C16: after migrate_json_to_sqlite the store is what the session driver's
\* commit path would have made of it: table tested holds the previous
\* digests and the digest of every listed integer, each once and computed
\* as has_been_tested computes it; the stats row is the imported record
\* when the file holds one, and the previous row when it holds none.
C16_ImportEquivalent ==
    pc = "mig_done"
        => /\ dbExists
           /\ txTested = EmptyBag /\ txStats = NoWrite
           /\ dbTested = SessionPathTested(preStore[1], legacy_numbers)
           /\ BagToSet(dbTested) =
                BagToSet(preStore[1])
                    \cup {hash_number(n) : n \in Range(legacy_numbers)}
           /\ \A h \in BagToSet(dbTested) : CopiesIn(h, dbTested) = 1
           /\ \A n \in Range(legacy_numbers) : has_been_tested(n)
           /\ legacy_stats # <<>>
                => /\ dbStats = SessionPathStats(preStore[2], legacy_stats[1])
                   /\ load_all_time_stats = legacy_stats[1]
           /\ legacy_stats = <<>> => dbStats = preStore[2]

C16_Witness ==
    /\ pc = "mig_done"
    /\ Len(legacy_numbers) = 2 /\ legacy_numbers[1] = legacy_numbers[2]
    /\ batch_size = LowBatchSize
    /\ BagCardinality(preStore[1]) = 1
    /\ BagCardinality(dbTested) = 2
    /\ preStore[2] # NoRow
    /\ legacy_stats # <<>>
    /\ dbStats = JsonDumps(ImportedStats)

\* Integers evaluated in this session whose digests are not committed.
Uncommitted == {n \in session_tested : ~Committed(n)}
SessionPoints == {"loop", "ckpt_mark", "ckpt_commit", "final_mark",
                  "final_save", "final_commit", "raised"}

\* C17: at every point of a session the integers evaluated in it and not yet
\* committed are exactly the contents of the pending buffer, and the buffer
\* never holds more than one checkpoint interval (target // 20) of integers.
C17_PendingBufferBounded ==
    pc \in SessionPoints
        => /\ Uncommitted = Range(batch_to_save)
           /\ Len(batch_to_save) <= num_tests \div CheckpointDivisor

\* Every integer of [min_value, max_value] is in the committed table.
Saturated == \A n \in min_value..max_value : Committed(n)

\* C18: a session run again on a store that already holds every integer of
\* its range completes normally: it evaluates nothing, leaves the count as
\* it was and returns a summary with session_tested = 0 and
\* duplicates_skipped > 0, equal to the number of attempts.  (Stated for
\* targets of at least 20, whose checkpoint interval is not 0.)
C18_SaturatedRerunCompletes ==
    [][(pc = "summary" /\ sessions >= 2 /\ num_tests >= CheckpointDivisor
            /\ test_count = 0 /\ Saturated /\ pc' # "idle")
        => /\ pc' = "done"
           /\ final_count' = initial_count
           /\ result'.session_tested = 0
           /\ result'.duplicates_skipped > 0
           /\ result'.duplicates_skipped = attempts]_vars

\* C19: a step of the loop that counts a duplicate adds one to attempts and
\* one to duplicates_skipped and leaves test_count, the pending buffer, the
\* session set, the in-memory record, the session top-10 lists and both
\* tables as they were; it is taken for a candidate of the session set or of
\* the store, a step that draws without counting a duplicate having
\* evaluated an integer that was in neither.
C19_DuplicateSkipFrame ==
    [][(pc = "loop" /\ pc' \in RunningPcs /\ attempts' # attempts)
        => /\ duplicates_skipped' # duplicates_skipped
             => /\ attempts' = attempts + 1
                /\ duplicates_skipped' = duplicates_skipped + 1
                /\ \E n \in min_value..max_value : IsDuplicate(n)
                /\ pc' = "loop"
                /\ UNCHANGED <<test_count, batch_to_save, session_tested,
                               all_time_stats, longest_sequence,
                               longest_sequence_num, highest_peak,
                               highest_peak_num, session_total_steps,
                               session_top_10_longest, session_top_10_highest,
                               dbExists, dbTested, dbStats, txTested, txStats>>
           /\ duplicates_skipped' = duplicates_skipped
             => \E n \in session_tested' \ session_tested : ~IsDuplicate(n)
           /\ Saturated => duplicates_skipped' = duplicates_skipped + 1]_vars

C19_Witness ==
    /\ pc = "loop"
    /\ test_count = 1 /\ duplicates_skipped >= 2
    /\ attempts = test_count + duplicates_skipped
    /\ Len(batch_to_save) = 1 /\ session_tested = Range(batch_to_save)
    /\ BagCardinality(dbTested) = 1
====
